---- MODULE Spec2Model ----
(***************************************************************************)
(* sheetdb: CRUD operations over tabular media.  Three adapters are        *)
(* modelled: CsvDB (delimited text file), ExcelDB (workbook sheet) and     *)
(* GoogleSheetDB (remote worksheet).  A table is the sequence of its       *)
(* physical rows; the first physical row is where the header row lives.    *)
(***************************************************************************)
EXTENDS Integers, Sequences, FiniteSets, TLC

\* Bounds of the model.
MaxRows == 3
MaxBatch == 2
MaxId == 1

VARIABLES record_type, adapter, store, cache, prev, last, cleared, tasks, client

vars == <<record_type, adapter, store, cache, prev, last, cleared, tasks, client>>

(***************************************************************************)
(* Values.  A Python value held by a record field or a cell is an int, a   *)
(* str or None; the kind is kept so that 1 and "1" differ, as they do      *)
(* under Python's ==.                                                      *)
(***************************************************************************)
IntV(n) == [k |-> "int", n |-> n, s |-> ""]
StrV(s) == [k |-> "str", n |-> 0, s |-> s]
NoneV == [k |-> "none", n |-> 0, s |-> ""]

Digit == <<"0", "1", "2", "3", "4", "5", "6", "7", "8", "9">>

\* str(n) of a non-negative int.
RECURSIVE IntToStr(_)
IntToStr(n) == IF n < 10 THEN Digit[n + 1]
               ELSE IntToStr(n \div 10) \o Digit[(n % 10) + 1]

\* The ints whose decimal text the model can meet.
IntRange == 0..9

\* int(s) as pydantic's lax int parsing does it: defined on decimal numerals only.
IsNumeral(s) == \E n \in IntRange : IntToStr(n) = s
ParseInt(s) == CHOOSE n \in IntRange : IntToStr(n) = s

\* What csv.writer writes for a value, and what get_all_values / row_values
\* return for a cell: its text.
ToText(v) == IF v.k = "int" THEN StrV(IntToStr(v.n))
             ELSE IF v.k = "none" THEN StrV("")
             ELSE v

TextRow(row) == [i \in 1..Len(row) |-> ToText(row[i])]

(***************************************************************************)
(* The record model: class User(SheetModel) with id: int, name: str and    *)
(* the field map of the demo; and a record type with the same fields that   *)
(* declares no field map ("Plain"), which has SheetModel's get_field_map.   *)
(***************************************************************************)
RecordTypes == {"User", "Plain"}

Fields == <<"id", "name">>
FieldSet == {Fields[i] : i \in 1..Len(Fields)}
FieldType == [id |-> "int", name |-> "str"]

\* User.get_field_map (a classmethod), and SheetModel.get_field_map of an
\* instance: self._field_map, which is {}.
FieldMaps == [User |-> [id |-> "User ID", name |-> "Full Name"], Plain |-> <<>>]

get_field_map == FieldMaps[record_type]

\* cls.get_field_map() in the classmethod generate_field_map: SheetModel's
\* get_field_map is an instance method, so on a record type that does not
\* override it the call lacks self and raises TypeError.
generate_field_map_raises == record_type # "User"

\* {v: k for k, v in field_map.items()}
Inverted(field_map) ==
    [h \in {field_map[f] : f \in DOMAIN field_map} |->
        CHOOSE f \in DOMAIN field_map : field_map[f] = h]

GeneratedMaps == [rt \in RecordTypes |-> Inverted(FieldMaps[rt])]

generate_field_map == GeneratedMaps[record_type]

\* field_map.get(k, k)
MapField(f) == IF f \in DOMAIN get_field_map THEN get_field_map[f] ELSE f

\* generate_field_map().get(h, h) for a header that is a str
UnmapHeader(h) == IF h \in DOMAIN generate_field_map THEN generate_field_map[h] ELSE h

\* pydantic validation of one field value (lax mode): an int field takes an
\* int or a numeral string, a str field takes a str only.
ValidField(f, v) ==
    IF FieldType[f] = "int"
    THEN v.k = "int" \/ (v.k = "str" /\ IsNumeral(v.s))
    ELSE v.k = "str"

CoerceField(f, v) ==
    IF FieldType[f] = "int" /\ v.k = "str" THEN IntV(ParseInt(v.s)) ELSE v

NoItem == [f \in FieldSet |-> NoneV]

\* model(**data): data is [bad, d], d a function from keyword to value; bad
\* marks a keyword that is not a str (TypeError).  Extra keywords are ignored.
Construct(data) ==
    IF ~data.bad /\ (\A f \in FieldSet : f \in DOMAIN data.d /\ ValidField(f, data.d[f]))
    THEN [ok |-> TRUE, item |-> [f \in FieldSet |-> CoerceField(f, data.d[f])]]
    ELSE [ok |-> FALSE, item |-> NoItem]

\* getattr(item, k, None)
Getattr(item, k) == IF k \in DOMAIN item THEN item[k] ELSE NoneV

\* any(...) in place of all(...).
Matches_any(item, filters) ==
    DOMAIN filters = {} \/ \E k \in DOMAIN filters : Getattr(item, k) = filters[k]

\* all(getattr(item, k, None) == v for k, v in filters.items())
Matches(item, filters) == \A k \in DOMAIN filters : Getattr(item, k) = filters[k]

\* for k, v in update_data.items(): setattr(item, k, v)   (no validation)
Setattrs(item, update_data) ==
    [f \in DOMAIN item |-> IF f \in DOMAIN update_data THEN update_data[f] ELSE item[f]]

\* {field_map.get(k, k): v for k, v in model.model_dump().items()}: the keys,
\* in declared field order.
MappedKeys == [i \in 1..Len(Fields) |-> StrV(MapField(Fields[i]))]

\* row.get(h, "") with the row keyed by field names, not by mapped names.
RowGet_unmapped(model, h) ==
    IF h.k = "str" /\ h.s \in FieldSet THEN model[h.s] ELSE StrV("")

\* row.get(h, "") on the mapped row of a model
RowGet(model, h) ==
    IF h.k = "str" /\ \E f \in FieldSet : MapField(f) = h.s
    THEN model[CHOOSE f \in FieldSet : MapField(f) = h.s]
    ELSE StrV("")

\* [row.get(h, "") for h in headers]
ProjectModel(model, headers) == [i \in 1..Len(headers) |-> RowGet(model, headers[i])]

\* [getattr(item, generate_field_map().get(h, h), "") for h in headers]
ProjectItem(item, headers) ==
    [i \in 1..Len(headers) |->
        IF headers[i].k = "str" /\ UnmapHeader(headers[i].s) \in DOMAIN item
        THEN item[UnmapHeader(headers[i].s)]
        ELSE StrV("")]

Min(a, b) == IF a < b THEN a ELSE b

\* {field_map.get(header, header): value for header, value in zip(headers, row)}
ZipDict(headers, row) ==
    LET n == Min(Len(headers), Len(row))
        key(i) == UnmapHeader(headers[i].s)
    IN [bad |-> \E i \in 1..n : headers[i].k # "str",
        d |-> [f \in {key(i) : i \in 1..n} |->
                 row[CHOOSE i \in 1..n : key(i) = f /\ \A j \in 1..n : key(j) = f => j <= i]]]

\* csv.DictReader's row, then {field_map.get(k, k): v for k, v in row.items()}:
\* a long row puts its rest under the key None, a short row is filled with None.
DictReaderDict(fieldnames, row) ==
    LET n == Len(fieldnames)
        key(i) == UnmapHeader(fieldnames[i].s)
        cell(i) == IF i <= Len(row) THEN row[i] ELSE NoneV
    IN [bad |-> Len(row) > n,
        d |-> [f \in {key(i) : i \in 1..n} |->
                 cell(CHOOSE i \in 1..n : key(i) = f /\ \A j \in 1..n : key(j) = f => j <= i)]]

\* The table and the cache entry of a table.
NoTable == [exists |-> FALSE, rows |-> <<>>]
NoEntry == [set |-> FALSE, headers |-> <<>>]
Entry(h) == [set |-> TRUE, headers |-> h]

Result(kind, items, t, c) == [kind |-> kind, items |-> items, t |-> t, c |-> c]

\* Index of the first item matching the filters, 0 when none does.
FirstMatch(items, filters) ==
    IF \E i \in 1..Len(items) : Matches(items[i], filters)
    THEN CHOOSE i \in 1..Len(items) :
            Matches(items[i], filters) /\ \A j \in 1..(i - 1) : ~Matches(items[j], filters)
    ELSE 0

(***************************************************************************)
(* CsvDB: the table is the file; its first line is the header.  Cells are   *)
(* text: csv.writer writes str(value).                                      *)
(***************************************************************************)
\* _get_headers: [headers, c] with c the cache entry afterwards.
CsvDB_get_headers(t, c) ==
    IF c.set THEN [headers |-> c.headers, c |-> c]
    ELSE IF ~t.exists THEN [headers |-> <<>>, c |-> c]
    ELSE LET h == IF t.rows = <<>> THEN <<>> ELSE Head(t.rows)
         IN [headers |-> h, c |-> Entry(h)]

\* _write_rows: the file is replaced by the header line and the rows.
CsvDB_write_rows(headers, rows) ==
    [exists |-> TRUE,
     rows |-> <<TextRow(headers)>> \o [i \in 1..Len(rows) |-> TextRow(rows[i])]]

\* _append_row: one line more (mode "a" creates the file).
CsvDB_append_row(t, row) ==
    [exists |-> TRUE, rows |-> Append(t.rows, TextRow(row))]

RECURSIVE CsvAppendAll(_, _, _)
CsvAppendAll(t, models, headers) ==
    IF models = <<>> THEN t
    ELSE CsvAppendAll(CsvDB_append_row(t, ProjectModel(Head(models), headers)),
                      Tail(models), headers)

CsvDB_insert_many(t, c, models) ==
    IF models = <<>> THEN Result("ok", <<>>, t, c)
    ELSE LET g == CsvDB_get_headers(t, c)
             fresh == g.headers = <<>>
             headers == IF fresh THEN MappedKeys ELSE g.headers
             c1 == IF fresh THEN Entry(headers) ELSE g.c
             t1 == IF fresh THEN CsvDB_write_rows(headers, <<>>) ELSE t
         IN Result("ok", <<>>, CsvAppendAll(t1, models, headers), c1)

CsvDB_insert(t, c, model) == CsvDB_insert_many(t, c, <<model>>)

\* The loop of get_all over the DictReader's rows: a blank line is skipped by
\* the reader, a row that does not construct is skipped by the except.
RECURSIVE CsvScan(_, _, _)
CsvScan(fieldnames, rows, filters) ==
    IF rows = <<>> THEN <<>>
    ELSE LET r == Construct(DictReaderDict(fieldnames, Head(rows)))
             rest == CsvScan(fieldnames, Tail(rows), filters)
         IN IF Head(rows) = <<>> \/ ~r.ok THEN rest
            ELSE IF DOMAIN filters # {}
                 THEN (IF Matches(r.item, filters) THEN <<r.item>> \o rest ELSE rest)
                 ELSE <<r.item>> \o rest

CsvDB_get_all(t, c, filters) ==
    IF ~t.exists THEN Result("ok", <<>>, t, c)
    ELSE IF generate_field_map_raises THEN Result("TypeError", <<>>, t, c)
    ELSE IF t.rows = <<>> THEN Result("ok", <<>>, t, c)
    ELSE Result("ok", CsvScan(Head(t.rows), Tail(t.rows), filters), t, c)

CsvDB_get_one(t, c, filters) ==
    LET a == CsvDB_get_all(t, c, <<>>)
        data == a.items
        i == FirstMatch(data, filters)
    IN IF a.kind # "ok" THEN a
       ELSE IF i = 0 THEN Result("NotFoundError", <<>>, t, c)
       ELSE Result("ok", <<data[i]>>, t, c)

\* CsvDB.update with the rewrite of the file moved before the test of the
\* updated flag: the file is written from get_all's list also when no row
\* matched.
CsvDB_update_write_first(t, c, filters, update_data) ==
    LET a == CsvDB_get_all(t, c, <<>>)
        data == a.items
        i == FirstMatch(data, filters)
        g == CsvDB_get_headers(t, c)
        Rows(d) == [j \in 1..Len(d) |-> ProjectItem(d[j], g.headers)]
    IN IF a.kind # "ok" THEN a
       ELSE IF i = 0
            THEN Result("NotFoundError", <<>>, CsvDB_write_rows(g.headers, Rows(data)), g.c)
       ELSE LET item == Setattrs(data[i], update_data)
            IN Result("ok", <<item>>,
                      CsvDB_write_rows(g.headers, Rows([data EXCEPT ![i] = item])), g.c)

CsvDB_update(t, c, filters, update_data) ==
    LET a == CsvDB_get_all(t, c, <<>>)
        data == a.items
        i == FirstMatch(data, filters)
    IN IF a.kind # "ok" THEN a
       ELSE IF i = 0 THEN Result("NotFoundError", <<>>, t, c)
       ELSE LET item == Setattrs(data[i], update_data)
                data1 == [data EXCEPT ![i] = item]
                g == CsvDB_get_headers(t, c)
                rows == [j \in 1..Len(data1) |-> ProjectItem(data1[j], g.headers)]
            IN Result("ok", <<item>>, CsvDB_write_rows(g.headers, rows), g.c)

\* The loop of delete: every matching item is left out of new_data and
\* deleted_item is the last of them (the loop has no break).
RECURSIVE CsvKeep(_, _)
CsvKeep(data, filters) ==
    IF data = <<>> THEN <<>>
    ELSE IF Matches(Head(data), filters) THEN CsvKeep(Tail(data), filters)
         ELSE <<Head(data)>> \o CsvKeep(Tail(data), filters)

CsvDB_delete(t, c, filters) ==
    LET a == CsvDB_get_all(t, c, <<>>)
        data == a.items
        hits == {i \in 1..Len(data) : Matches(data[i], filters)}
    IN IF a.kind # "ok" THEN a
       ELSE IF hits = {} THEN Result("NotFoundError", <<>>, t, c)
       ELSE LET deleted_item == data[CHOOSE i \in hits : \A j \in hits : j <= i]
                new_data == CsvKeep(data, filters)
                g == CsvDB_get_headers(t, c)
                rows == [j \in 1..Len(new_data) |-> ProjectItem(new_data[j], g.headers)]
            IN Result("ok", <<deleted_item>>, CsvDB_write_rows(g.headers, rows), g.c)

CsvDB_delete_all(t, c) ==
    LET g == CsvDB_get_headers(t, c)
    IN IF g.headers # <<>>
       THEN Result("ok", <<>>, CsvDB_write_rows(g.headers, <<>>), g.c)
       ELSE Result("ok", <<>>, t, g.c)

(***************************************************************************)
(* ExcelDB: the table is a sheet of the workbook; cells keep their Python   *)
(* values.                                                                  *)
(***************************************************************************)
\* ws.delete_rows(idx, amount): the rows idx .. idx+amount-1 go, later rows move up.
DeleteRows(rows, idx, amount) ==
    LET keep == {i \in 1..Len(rows) : i < idx \/ i >= idx + amount}
        nth(j) == CHOOSE i \in keep : Cardinality({m \in keep : m <= i}) = j
    IN [j \in 1..Cardinality(keep) |-> rows[nth(j)]]

\* ws.cell(row=r, column=col, value=v) for each value of mapped_row; and
\* ws.update("A{r}:..{r}", [mapped_row]).
WriteRow(rows, r, mapped_row) ==
    [i \in 1..Len(rows) |->
        IF i # r THEN rows[i]
        ELSE [j \in 1..(IF Len(mapped_row) > Len(rows[i]) THEN Len(mapped_row) ELSE Len(rows[i])) |->
                IF j <= Len(mapped_row) THEN mapped_row[j] ELSE rows[i][j]]]

\* A missing sheet is created also when no headers are given (an empty header row).
ExcelDB_get_worksheet_nocheck(t, c, has, headers) ==
    IF ~t.exists
    THEN [raised |-> FALSE, t |-> [exists |-> TRUE, rows |-> <<headers>>], c |-> Entry(headers)]
    ELSE [raised |-> FALSE, t |-> t, c |-> c]

\* _get_worksheet: [raised, t, c]; a missing sheet is created with the headers
\* given, and raises ValueError when none are given (has = FALSE).
ExcelDB_get_worksheet(t, c, has, headers) ==
    IF ~t.exists
    THEN IF ~has THEN [raised |-> TRUE, t |-> t, c |-> c]
         ELSE [raised |-> FALSE, t |-> [exists |-> TRUE, rows |-> <<headers>>],
               c |-> Entry(headers)]
    ELSE [raised |-> FALSE, t |-> t, c |-> c]

\* _get_headers: the cached headers, else the values of row 1, cached.
ExcelDB_get_headers(t, c) ==
    IF c.set THEN [headers |-> c.headers, c |-> c]
    ELSE LET h == IF t.rows = <<>> THEN <<>> ELSE Head(t.rows)
         IN [headers |-> h, c |-> Entry(h)]

ExcelDB_insert_many(t, c, models) ==
    IF models = <<>> THEN Result("ok", <<>>, t, c)
    ELSE LET w == ExcelDB_get_worksheet(t, c, TRUE, MappedKeys)
             g == ExcelDB_get_headers(w.t, w.c)
             new == [i \in 1..Len(models) |-> ProjectModel(models[i], g.headers)]
         IN Result("ok", <<>>, [exists |-> TRUE, rows |-> w.t.rows \o new], g.c)

ExcelDB_insert(t, c, model) == ExcelDB_insert_many(t, c, <<model>>)

\* The loop with the filters applied to the first filter key only.
RECURSIVE ZipScan_firstkey(_, _, _)
ZipScan_firstkey(headers, rows, filters) ==
    IF rows = <<>> THEN <<>>
    ELSE LET r == Construct(ZipDict(headers, Head(rows)))
             rest == ZipScan_firstkey(headers, Tail(rows), filters)
             k1 == CHOOSE k \in DOMAIN filters : TRUE
         IN IF ~r.ok THEN rest
            ELSE IF DOMAIN filters # {}
                 THEN (IF Getattr(r.item, k1) = filters[k1] THEN <<r.item>> \o rest ELSE rest)
                 ELSE <<r.item>> \o rest

\* The loop ended by the first row that does not construct (break for continue).
RECURSIVE ZipScan_break(_, _, _)
ZipScan_break(headers, rows, filters) ==
    IF rows = <<>> THEN <<>>
    ELSE LET r == Construct(ZipDict(headers, Head(rows)))
             rest == ZipScan_break(headers, Tail(rows), filters)
         IN IF ~r.ok THEN <<>>
            ELSE IF DOMAIN filters # {}
                 THEN (IF Matches(r.item, filters) THEN <<r.item>> \o rest ELSE rest)
                 ELSE <<r.item>> \o rest

\* The loop of get_all over the rows read (rows 2.. of the sheet).
RECURSIVE ZipScan(_, _, _)
ZipScan(headers, rows, filters) ==
    IF rows = <<>> THEN <<>>
    ELSE LET r == Construct(ZipDict(headers, Head(rows)))
             rest == ZipScan(headers, Tail(rows), filters)
         IN IF ~r.ok THEN rest
            ELSE IF DOMAIN filters # {}
                 THEN (IF Matches(r.item, filters) THEN <<r.item>> \o rest ELSE rest)
                 ELSE <<r.item>> \o rest

ExcelDB_get_all(t, c, filters) ==
    LET w == ExcelDB_get_worksheet(t, c, FALSE, <<>>)
    IN IF w.raised THEN Result("ValueError", <<>>, t, c)
       ELSE LET g == ExcelDB_get_headers(t, c)
                rows == IF t.rows = <<>> THEN <<>> ELSE Tail(t.rows)
            IN IF generate_field_map_raises THEN Result("TypeError", <<>>, t, g.c)
               ELSE Result("ok", ZipScan(g.headers, rows, filters), t, g.c)

ExcelDB_get_one(t, c, filters) ==
    LET a == ExcelDB_get_all(t, c, <<>>)
        i == FirstMatch(a.items, filters)
    IN IF a.kind # "ok" THEN a
       ELSE IF i = 0 THEN Result("NotFoundError", <<>>, a.t, a.c)
       ELSE Result("ok", <<a.items[i]>>, a.t, a.c)

\* The row written is idx + 2, idx the 0-based place of the item in the list
\* get_all returned.
ExcelDB_update(t, c, filters, update_data) ==
    LET a == ExcelDB_get_all(t, c, <<>>)
        i == FirstMatch(a.items, filters)
    IN IF a.kind # "ok" THEN a
       ELSE IF i = 0 THEN Result("NotFoundError", <<>>, a.t, a.c)
       ELSE LET item == Setattrs(a.items[i], update_data)
                g == ExcelDB_get_headers(a.t, a.c)
                mapped_row == ProjectItem(item, g.headers)
                row_number == (i - 1) + 2
            IN Result("ok", <<item>>,
                      [exists |-> TRUE, rows |-> WriteRow(a.t.rows, row_number, mapped_row)],
                      g.c)

\* delete_row: the row deleted is int(item.id) + 1.
ExcelDB_delete_row(t, item) ==
    LET row_number == item["id"].n + 1
    IN [exists |-> TRUE, rows |-> DeleteRows(t.rows, row_number, 1)]

ExcelDB_delete(t, c, filters) ==
    LET a == ExcelDB_get_all(t, c, <<>>)
        i == FirstMatch(a.items, filters)
    IN IF a.kind # "ok" THEN a
       ELSE IF i = 0 THEN Result("NotFoundError", <<>>, a.t, a.c)
       ELSE Result("ok", <<a.items[i]>>, ExcelDB_delete_row(a.t, a.items[i]), a.c)

\* ws.delete_rows(1, len(rows)) in place of ws.delete_rows(2, len(rows)).
ExcelDB_delete_all_from1(t, c) ==
    LET n == Len(t.rows) - 1
    IN IF ~t.exists THEN Result("ValueError", <<>>, t, c)
       ELSE IF n <= 0 THEN Result("ok", <<>>, t, c)
       ELSE Result("ok", <<>>, [exists |-> TRUE, rows |-> DeleteRows(t.rows, 1, n)], c)

ExcelDB_delete_all(t, c) ==
    LET w == ExcelDB_get_worksheet(t, c, FALSE, <<>>)
        n == Len(t.rows) - 1
    IN IF w.raised THEN Result("ValueError", <<>>, t, c)
       ELSE IF n <= 0 THEN Result("ok", <<>>, t, c)
       ELSE Result("ok", <<>>, [exists |-> TRUE, rows |-> DeleteRows(t.rows, 2, n)], c)

(***************************************************************************)
(* GoogleSheetDB: the table is a worksheet of the spreadsheet.  Cells keep  *)
(* the values written; get_all_values and row_values return their text.     *)
(***************************************************************************)
\* ws.get_all_values(): every row as text.
GetAllValues(t) == [i \in 1..Len(t.rows) |-> TextRow(t.rows[i])]

GoogleSheetDB_get_worksheet(t, c, has, headers) ==
    IF ~t.exists
    THEN IF ~has THEN [raised |-> TRUE, t |-> t, c |-> c]
         ELSE [raised |-> FALSE, t |-> [exists |-> TRUE, rows |-> <<headers>>],
               c |-> Entry(headers)]
    ELSE [raised |-> FALSE, t |-> t, c |-> c]

GoogleSheetDB_get_headers(t, c) ==
    IF c.set THEN [headers |-> c.headers, c |-> c]
    ELSE LET h == IF t.rows = <<>> THEN <<>> ELSE TextRow(Head(t.rows))
         IN [headers |-> h, c |-> Entry(h)]

GoogleSheetDB_insert_many(t, c, models) ==
    IF models = <<>> THEN Result("ok", <<>>, t, c)
    ELSE LET w == GoogleSheetDB_get_worksheet(t, c, TRUE, MappedKeys)
             g == GoogleSheetDB_get_headers(w.t, w.c)
             values == [i \in 1..Len(models) |-> ProjectModel(models[i], g.headers)]
         IN Result("ok", <<>>, [exists |-> TRUE, rows |-> w.t.rows \o values], g.c)

GoogleSheetDB_insert(t, c, model) == GoogleSheetDB_insert_many(t, c, <<model>>)

GoogleSheetDB_get_all(t, c, filters) ==
    LET w == GoogleSheetDB_get_worksheet(t, c, FALSE, <<>>)
    IN IF w.raised THEN Result("ValueError", <<>>, t, c)
       ELSE LET g == GoogleSheetDB_get_headers(t, c)
                rows == GetAllValues(t)
                data == IF rows = <<>> THEN <<>> ELSE Tail(rows)
            IN IF generate_field_map_raises THEN Result("TypeError", <<>>, t, g.c)
               ELSE Result("ok", ZipScan(g.headers, data, filters), t, g.c)

GoogleSheetDB_get_one(t, c, filters) ==
    LET a == GoogleSheetDB_get_all(t, c, <<>>)
        i == FirstMatch(a.items, filters)
    IN IF a.kind # "ok" THEN a
       ELSE IF i = 0 THEN Result("NotFoundError", <<>>, a.t, a.c)
       ELSE Result("ok", <<a.items[i]>>, a.t, a.c)

GoogleSheetDB_update(t, c, filters, update_data) ==
    LET a == GoogleSheetDB_get_all(t, c, <<>>)
        i == FirstMatch(a.items, filters)
    IN IF a.kind # "ok" THEN a
       ELSE IF i = 0 THEN Result("NotFoundError", <<>>, a.t, a.c)
       ELSE LET item == Setattrs(a.items[i], update_data)
                g == GoogleSheetDB_get_headers(a.t, a.c)
                mapped_row == ProjectItem(item, g.headers)
                row_number == (i - 1) + 2
            IN Result("ok", <<item>>,
                      [exists |-> TRUE, rows |-> WriteRow(a.t.rows, row_number, mapped_row)],
                      g.c)

GoogleSheetDB_delete_row(t, item) ==
    LET row_number == item["id"].n + 1
    IN [exists |-> TRUE, rows |-> DeleteRows(t.rows, row_number, 1)]

GoogleSheetDB_delete(t, c, filters) ==
    LET a == GoogleSheetDB_get_all(t, c, <<>>)
        i == FirstMatch(a.items, filters)
    IN IF a.kind # "ok" THEN a
       ELSE IF i = 0 THEN Result("NotFoundError", <<>>, a.t, a.c)
       ELSE Result("ok", <<a.items[i]>>, GoogleSheetDB_delete_row(a.t, a.items[i]), a.c)

\* batch_clear of A2 .. last row: the cleared rows are no longer rows of the
\* sheet's values.
GoogleSheetDB_delete_all(t, c) ==
    LET w == GoogleSheetDB_get_worksheet(t, c, FALSE, <<>>)
        rows == GetAllValues(t)
    IN IF w.raised THEN Result("ValueError", <<>>, t, c)
       ELSE IF Len(rows) <= 1 THEN Result("ok", <<>>, t, c)
       ELSE Result("ok", <<>>, [exists |-> TRUE, rows |-> <<Head(t.rows)>>], c)

(***************************************************************************)
(* The state.  adapter is the adapter class in use; store maps a medium     *)
(* location to its table; cache is the module's cache_headers; prev is the  *)
(* store before the call that last returned and last is that call with its   *)
(* outcome, until the caller takes it (Return); cleared records that the    *)
(* latest call to change the table was a delete_all.                        *)
(***************************************************************************)
Adapters == {"csv", "excel", "gsheet"}
Files == {"db"}
Sheets == {"Users"}

\* Where a record type's table lives: CsvDB has one table, its file, whatever
\* the sheet name; the others have one sheet per sheet name.
StoreKey(a, file, sheet) == IF a = "csv" THEN <<file, "">> ELSE <<file, sheet>>

\* The key of cache_headers: the file path in CsvDB, the sheet name elsewhere.
CacheKey(a, file, sheet) == IF a = "csv" THEN file ELSE sheet

StoreKeys(a) == {StoreKey(a, f, sh) : f \in Files, sh \in Sheets}
CacheKeys(a) == {CacheKey(a, f, sh) : f \in Files, sh \in Sheets}

\* The inputs.
Ids == 0..MaxId
Names == {"a", "b"}
Models == {[id |-> IntV(i), name |-> StrV(n)] : i \in Ids, n \in Names}
Batches == UNION {[1..n -> Models] : n \in 1..MaxBatch}

FilterValues == [f \in FieldSet |->
                    IF f = "id" THEN {IntV(i) : i \in Ids} \cup {StrV("1")}
                    ELSE {StrV(n) : n \in Names}]
UpdateValues == [f \in FieldSet |->
                    IF f = "id" THEN {IntV(i) : i \in Ids} \cup {StrV("x")}
                    ELSE {StrV(n) : n \in Names}]

\* The dicts whose keys are fields and whose values are among vals[key].
Dicts(vals) ==
    UNION {{d \in [S -> UNION {vals[f] : f \in FieldSet}] : \A f \in S : d[f] \in vals[f]} :
           S \in SUBSET FieldSet}

FilterDicts == Dicts(FilterValues)
UpdateDicts == Dicts(UpdateValues) \ {<<>>}

HeaderOnly == [exists |-> TRUE, rows |-> <<MappedKeys>>]

NoCall == [op |-> "none", file |-> "", sheet |-> "", filters |-> <<>>, data |-> <<>>,
           models |-> <<>>, kind |-> "ok", items |-> <<>>, after_clear |-> FALSE]

Call(op, file, sheet, filters, data, models, r) ==
    [op |-> op, file |-> file, sheet |-> sheet, filters |-> filters, data |-> data,
     models |-> models, kind |-> r.kind, items |-> r.items, after_clear |-> cleared]

\* The adapter's method.
Do_insert_many(a, t, c, models) ==
    CASE a = "csv" -> CsvDB_insert_many(t, c, models)
      [] a = "excel" -> ExcelDB_insert_many(t, c, models)
      [] a = "gsheet" -> GoogleSheetDB_insert_many(t, c, models)

Do_insert(a, t, c, model) ==
    CASE a = "csv" -> CsvDB_insert(t, c, model)
      [] a = "excel" -> ExcelDB_insert(t, c, model)
      [] a = "gsheet" -> GoogleSheetDB_insert(t, c, model)

Do_get_all(a, t, c, filters) ==
    CASE a = "csv" -> CsvDB_get_all(t, c, filters)
      [] a = "excel" -> ExcelDB_get_all(t, c, filters)
      [] a = "gsheet" -> GoogleSheetDB_get_all(t, c, filters)

Do_get_one(a, t, c, filters) ==
    CASE a = "csv" -> CsvDB_get_one(t, c, filters)
      [] a = "excel" -> ExcelDB_get_one(t, c, filters)
      [] a = "gsheet" -> GoogleSheetDB_get_one(t, c, filters)

Do_update(a, t, c, filters, update_data) ==
    CASE a = "csv" -> CsvDB_update(t, c, filters, update_data)
      [] a = "excel" -> ExcelDB_update(t, c, filters, update_data)
      [] a = "gsheet" -> GoogleSheetDB_update(t, c, filters, update_data)

Do_delete(a, t, c, filters) ==
    CASE a = "csv" -> CsvDB_delete(t, c, filters)
      [] a = "excel" -> ExcelDB_delete(t, c, filters)
      [] a = "gsheet" -> GoogleSheetDB_delete(t, c, filters)

Do_delete_all(a, t, c) ==
    CASE a = "csv" -> CsvDB_delete_all(t, c)
      [] a = "excel" -> ExcelDB_delete_all(t, c)
      [] a = "gsheet" -> GoogleSheetDB_delete_all(t, c)

\* The adapter's _get_headers.
Do_get_headers(a, t, c) ==
    CASE a = "csv" -> CsvDB_get_headers(t, c)
      [] a = "excel" -> ExcelDB_get_headers(t, c)
      [] a \in {"gsheet", "gsheet_async"} -> GoogleSheetDB_get_headers(t, c)

\* The table and the cache entry a call on (file, sheet) works on.
Tbl(file, sheet) == store[StoreKey(adapter, file, sheet)]
Ent(file, sheet) == cache[CacheKey(adapter, file, sheet)]

\* The coroutines of the asynchronous adapter: a caller's frame holds the
\* call, the place it is suspended at (pc) and its local variables.  The
\* synchronous adapters run no coroutine.
Callers == {1, 2}

IdleFrame == [pc |-> "idle", op |-> "none", phase |-> 1, filters |-> <<>>, data |-> <<>>,
              models |-> <<>>, found |-> FALSE, headers |-> <<>>, rows |-> <<>>, idx |-> 0,
              item |-> NoItem, kind |-> "none", items |-> <<>>, wrote_last |-> FALSE,
              calls |-> 0]

NoTasks == [c \in Callers |-> IdleFrame]

\* self._client of the adapter instance, and how often authorize() was called.
NoClient == [set |-> FALSE, auths |-> 0]

\* A call's effect on the state.
Effect(op, file, sheet, filters, data, models, r) ==
    /\ store' = [store EXCEPT ![StoreKey(adapter, file, sheet)] = r.t]
    /\ cache' = [cache EXCEPT ![CacheKey(adapter, file, sheet)] = r.c]
    /\ prev' = store
    /\ last' = Call(op, file, sheet, filters, data, models, r)
    /\ cleared' = IF op = "delete_all" THEN r.kind = "ok"
                  ELSE IF op \in {"get_all", "get_one"} THEN cleared
                  ELSE FALSE
    /\ UNCHANGED <<record_type, adapter, tasks, client>>

\* The caller takes the outcome of the call.
Return ==
    /\ last # NoCall
    /\ last' = NoCall
    /\ prev' = store
    /\ UNCHANGED <<record_type, adapter, store, cache, cleared, tasks, client>>

\* The process has a table and a cache slot for the call's target.
IsTarget(file, sheet) ==
    /\ StoreKey(adapter, file, sheet) \in DOMAIN store
    /\ CacheKey(adapter, file, sheet) \in DOMAIN cache

\* Data rows a table holds (0 for a table that does not exist).
DataRows(t) == IF t.rows = <<>> THEN 0 ELSE Len(t.rows) - 1

Insert_many(file, sheet, models) ==
    /\ last = NoCall
    /\ IsTarget(file, sheet)
    /\ DataRows(Tbl(file, sheet)) + Len(models) <= MaxRows
    /\ Effect("insert_many", file, sheet, <<>>, <<>>, models,
              Do_insert_many(adapter, Tbl(file, sheet), Ent(file, sheet), models))

Insert(file, sheet, model) ==
    /\ last = NoCall
    /\ IsTarget(file, sheet)
    /\ DataRows(Tbl(file, sheet)) + 1 <= MaxRows
    /\ Effect("insert", file, sheet, <<>>, <<>>, <<model>>,
              Do_insert(adapter, Tbl(file, sheet), Ent(file, sheet), model))

Get_all(file, sheet, filters) ==
    /\ last = NoCall
    /\ IsTarget(file, sheet)
    /\ Effect("get_all", file, sheet, filters, <<>>, <<>>,
               Do_get_all(adapter, Tbl(file, sheet), Ent(file, sheet), filters))

Get_one(file, sheet, filters) ==
    /\ last = NoCall
    /\ IsTarget(file, sheet)
    /\ Effect("get_one", file, sheet, filters, <<>>, <<>>,
               Do_get_one(adapter, Tbl(file, sheet), Ent(file, sheet), filters))

Update(file, sheet, filters, update_data) ==
    /\ last = NoCall
    /\ IsTarget(file, sheet)
    /\ Effect("update", file, sheet, filters, update_data, <<>>,
               Do_update(adapter, Tbl(file, sheet), Ent(file, sheet), filters, update_data))

Delete(file, sheet, filters) ==
    /\ last = NoCall
    /\ IsTarget(file, sheet)
    /\ Effect("delete", file, sheet, filters, <<>>, <<>>,
               Do_delete(adapter, Tbl(file, sheet), Ent(file, sheet), filters))

Delete_all(file, sheet) ==
    /\ last = NoCall
    /\ IsTarget(file, sheet)
    /\ Effect("delete_all", file, sheet, <<>>, <<>>, <<>>,
               Do_delete_all(adapter, Tbl(file, sheet), Ent(file, sheet)))

\* A process starts with an empty cache_headers; the table is absent, or was
\* created with its header row by an earlier process.
Init ==
    /\ record_type = "User"
    /\ adapter \in Adapters
    /\ store \in [StoreKeys(adapter) -> {NoTable, HeaderOnly}]
    /\ cache = [k \in CacheKeys(adapter) |-> NoEntry]
    /\ prev = store
    /\ last = NoCall
    /\ cleared = FALSE
    /\ tasks = NoTasks
    /\ client = NoClient

Calls ==
    \E file \in Files, sheet \in Sheets :
        \/ \E models \in Batches : Insert_many(file, sheet, models)
        \/ \E model \in Models : Insert(file, sheet, model)
        \/ \E filters \in FilterDicts : Get_all(file, sheet, filters)
        \/ \E filters \in FilterDicts : Get_one(file, sheet, filters)
        \/ \E filters \in FilterDicts, update_data \in UpdateDicts :
              Update(file, sheet, filters, update_data)
        \/ \E filters \in FilterDicts : Delete(file, sheet, filters)
        \/ Delete_all(file, sheet)

Next == Calls \/ Return

Spec == Init /\ [][Next]_vars

\* The same calls for the record type that declares no field map.
InitPlain ==
    /\ record_type = "Plain"
    /\ adapter \in Adapters
    /\ store \in [StoreKeys(adapter) -> {NoTable, HeaderOnly}]
    /\ cache = [k \in CacheKeys(adapter) |-> NoEntry]
    /\ prev = store
    /\ last = NoCall
    /\ cleared = FALSE
    /\ tasks = NoTasks
    /\ client = NoClient

SpecPlain == InitPlain /\ [][Next]_vars

(***************************************************************************)
(* Several tables in one process.  Either two adapter instances of the      *)
(* class bound to two files (spreadsheet ids) that each hold the sheet       *)
(* "Users", or one instance used with two record types whose sheet names    *)
(* differ.  A table that exists at process start was created by an earlier   *)
(* process, with the header row of the record type that created it.          *)
(***************************************************************************)
MaxSharedRows == 2

Files2 == {"db", "db2"}
Sheets2 == {"Users", "Admins"}

StoreKeysOf(a, files, sheets) == {StoreKey(a, f, sh) : f \in files, sh \in sheets}
CacheKeysOf(a, files, sheets) == {CacheKey(a, f, sh) : f \in files, sh \in sheets}

\* Header rows a table can have been created with: the record type's mapped
\* names, the same in another order, and one lacking a column of the record
\* type and holding a column the record type does not have.
HeaderShapes == {MappedKeys,
                 <<StrV("Full Name"), StrV("User ID")>>,
                 <<StrV("User ID"), StrV("Extra")>>}

SharedModels == {[id |-> IntV(0), name |-> StrV("a")], [id |-> IntV(1), name |-> StrV("b")]}
SharedBatches == UNION {[1..n -> SharedModels] : n \in 1..MaxBatch}
SharedFilters == {<<>>, [id |-> IntV(1)], [name |-> StrV("a")]}
SharedUpdates == {[name |-> StrV("b")]}

TotalRows(s) ==
    LET RECURSIVE Sum(_)
        Sum(ks) == IF ks = {} THEN 0
                   ELSE LET k == CHOOSE x \in ks : TRUE
                        IN DataRows(s[k]) + Sum(ks \ {k})
    IN Sum(DOMAIN s)

InitShared ==
    /\ record_type = "User"
    /\ adapter \in Adapters
    /\ \E layout \in {<<Files2, {"Users"}>>, <<{"db"}, Sheets2>>} :
          /\ store \in [StoreKeysOf(adapter, layout[1], layout[2]) ->
                           {NoTable} \cup {[exists |-> TRUE, rows |-> <<h>>] : h \in HeaderShapes}]
          /\ cache = [k \in CacheKeysOf(adapter, layout[1], layout[2]) |-> NoEntry]
    /\ prev = store
    /\ last = NoCall
    /\ cleared = FALSE
    /\ tasks = NoTasks
    /\ client = NoClient

\* insert_many and insert, within the bound on the rows of all tables.
Insert_many_shared(file, sheet, models) ==
    /\ Insert_many(file, sheet, models)
    /\ TotalRows(store') <= MaxSharedRows

Insert_shared(file, sheet, model) ==
    /\ Insert(file, sheet, model)
    /\ TotalRows(store') <= MaxSharedRows

CallsShared ==
    \E file \in Files2, sheet \in Sheets2 :
        \/ \E models \in SharedBatches : Insert_many_shared(file, sheet, models)
        \/ \E model \in SharedModels : Insert_shared(file, sheet, model)
        \/ \E filters \in SharedFilters : Get_all(file, sheet, filters)
        \/ \E filters \in SharedFilters : Get_one(file, sheet, filters)
        \/ \E filters \in SharedFilters, update_data \in SharedUpdates :
              Update(file, sheet, filters, update_data)
        \/ \E filters \in SharedFilters : Delete(file, sheet, filters)
        \/ Delete_all(file, sheet)

NextShared == CallsShared \/ Return

SpecShared == InitShared /\ [][NextShared]_vars

(***************************************************************************)
(* AsyncGoogleSheetDB.  A coroutine runs until it awaits a network call;    *)
(* the service serves the call when it is issued and the coroutine resumes   *)
(* with the answer in a later step, so the steps of two callers interleave   *)
(* at the network calls.  The adapter is bound to one spreadsheet and the    *)
(* record type's sheet is "Users".                                           *)
(***************************************************************************)
MaxCalls == 1
MaxAsyncRows == 2

AsyncKey == StoreKey("gsheet_async", "db", "Users")
AsyncSheet == CacheKey("gsheet_async", "db", "Users")

AsyncUpdates == {[name |-> StrV("b")], [id |-> IntV(1)]}

\* The sheet's values have no trailing empty rows.
RECURSIVE Trim(_)
Trim(rows) ==
    IF rows # <<>> /\ rows[Len(rows)] = <<>> THEN Trim(SubSeq(rows, 1, Len(rows) - 1))
    ELSE rows

\* ws.update("A{r}:..{r}", [mapped_row]) on the sheet's grid: a row below the
\* last row with values is written too.
AsyncWriteRow(rows, r, mapped_row) ==
    LET grid == [i \in 1..(IF r > Len(rows) THEN r ELSE Len(rows)) |->
                    IF i <= Len(rows) THEN rows[i] ELSE <<>>]
    IN Trim(WriteRow(grid, r, mapped_row))

\* ws.batch_clear(["A2:..{n}"]): the cells of rows 2..n are emptied.
BatchClear(rows, n) ==
    Trim([i \in 1..Len(rows) |-> IF i >= 2 /\ i <= n THEN <<>> ELSE rows[i]])

\* The frames after caller c changed the sheet: c is the latest writer.
Mark(ts, c) == [d \in Callers |-> [ts[d] EXCEPT !.wrote_last = (d = c)]]

\* The call ends: it returns items or raises kind.
Done(f, kind, items) == [f EXCEPT !.pc = "done", !.kind = kind, !.items = items]

\* _get_client followed by the first await of _get_worksheet or delete_row:
\* authorize() when self._client is not set, otherwise open_by_key.
EnterClient(c, f) ==
    /\ IF ~client.set
       THEN /\ client' = [client EXCEPT !.auths = @ + 1]
            /\ tasks' = [tasks EXCEPT ![c] = [f EXCEPT !.pc = "auth"]]
       ELSE /\ client' = client
            /\ tasks' = [tasks EXCEPT ![c] = [f EXCEPT !.pc = "opened"]]
    /\ UNCHANGED <<store, cache>>

\* An update that writes only the cells of the fields in update_data.
UpdateRowWrite_merge(t, f, headers) ==
    LET r == f.idx + 2
        cur == IF r <= Len(t.rows) THEN t.rows[r] ELSE <<>>
        mapped_row == ProjectItem(f.item, headers)
    IN [exists |-> TRUE,
        rows |-> AsyncWriteRow(t.rows, r,
                    [j \in 1..Len(mapped_row) |->
                        IF UnmapHeader(headers[j].s) \in DOMAIN f.data \/ j > Len(cur)
                        THEN mapped_row[j] ELSE cur[j]])]

\* ws.update(range_notation, [mapped_row]) of update, row_number = idx + 2.
UpdateRowWrite(t, f, headers) ==
    [exists |-> TRUE,
     rows |-> AsyncWriteRow(t.rows, f.idx + 2, ProjectItem(f.item, headers))]

\* The headers are known: the coroutine goes on to its next network call.
AfterHeaders(c, f, headers) ==
    LET t == store[AsyncKey]
    IN CASE f.op \in {"insert", "insert_many"} ->
              /\ store' = [store EXCEPT ![AsyncKey] =
                    [exists |-> TRUE,
                     rows |-> t.rows \o [i \in 1..Len(f.models) |->
                                            ProjectModel(f.models[i], headers)]]]
              /\ tasks' = Mark([tasks EXCEPT ![c] = [f EXCEPT !.pc = "appended"]], c)
         [] f.op = "update" /\ f.phase = 2 ->
              /\ store' = [store EXCEPT ![AsyncKey] = UpdateRowWrite(t, f, headers)]
              /\ tasks' = Mark([tasks EXCEPT ![c] =
                                   [f EXCEPT !.pc = "written", !.headers = headers]], c)
         [] OTHER ->
              /\ store' = store
              /\ tasks' = [tasks EXCEPT ![c] =
                    [f EXCEPT !.pc = "rows", !.headers = headers, !.rows = GetAllValues(t)]]

\* A caller starts a call: the coroutine runs up to its first network call.
Start(c, op, filters, data, models) ==
    /\ adapter = "gsheet_async"
    /\ tasks[c].pc = "idle"
    /\ tasks[c].calls < MaxCalls
    /\ EnterClient(c, [IdleFrame EXCEPT !.op = op, !.filters = filters, !.data = data,
                                        !.models = models, !.calls = tasks[c].calls + 1,
                                        !.wrote_last = tasks[c].wrote_last])
    /\ UNCHANGED <<record_type, adapter, prev, last, cleared>>

\* Rows the inserts under way will add.
Pending == LET n(c) == IF tasks[c].pc \in {"idle", "done", "appended"} THEN 0
                       ELSE Len(tasks[c].models)
           IN n(1) + n(2)

Start_insert_many(c, models) ==
    /\ DataRows(store[AsyncKey]) + Pending + Len(models) <= MaxAsyncRows
    /\ Start(c, "insert_many", <<>>, <<>>, models)

Start_insert(c, model) ==
    /\ DataRows(store[AsyncKey]) + Pending + 1 <= MaxAsyncRows
    /\ Start(c, "insert", <<>>, <<>>, <<model>>)

Start_get_all(c, filters) ==
    /\ tasks[c].pc = "idle"
    /\ Start(c, "get_all", filters, <<>>, <<>>)

Start_get_one(c, filters) ==
    /\ tasks[c].pc = "idle"
    /\ Start(c, "get_one", filters, <<>>, <<>>)

Start_update(c, filters, update_data) ==
    /\ tasks[c].pc = "idle"
    /\ Start(c, "update", filters, update_data, <<>>)

Start_delete(c, filters) ==
    /\ tasks[c].pc = "idle"
    /\ Start(c, "delete", filters, <<>>, <<>>)

Start_delete_all(c) ==
    /\ tasks[c].pc = "idle"
    /\ Start(c, "delete_all", <<>>, <<>>, <<>>)

\* authorize() has returned: self._client is set and open_by_key is awaited.
Authorized(c) ==
    /\ tasks[c].pc = "auth"
    /\ client' = [client EXCEPT !.set = TRUE]
    /\ tasks' = [tasks EXCEPT ![c].pc = "opened"]
    /\ UNCHANGED <<record_type, adapter, store, cache, prev, last, cleared>>

\* open_by_key has returned: spreadsheet.worksheet(sheet_name) is awaited.
Opened(c) ==
    /\ tasks[c].pc = "opened"
    /\ tasks' = [tasks EXCEPT ![c].pc = "ws", ![c].found = store[AsyncKey].exists]
    /\ UNCHANGED <<record_type, adapter, store, cache, prev, last, cleared, client>>

\* worksheet(sheet_name) has answered.  A sheet not found is created by
\* insert_many (add_worksheet), and is an error for every other call; a sheet
\* found is written to by delete_row, read by delete_all, and otherwise asked
\* for its headers unless the cache has them.
GotWorksheet(c) ==
    LET f == tasks[c]
        t == store[AsyncKey]
    IN /\ f.pc = "ws"
       /\ IF ~f.found
          THEN IF f.op \in {"insert", "insert_many"}
               THEN IF t.exists
                    THEN /\ tasks' = [tasks EXCEPT ![c] = Done(f, "APIError", <<>>)]
                         /\ store' = store
                    ELSE /\ store' = [store EXCEPT ![AsyncKey] = [exists |-> TRUE, rows |-> <<>>]]
                         /\ tasks' = Mark([tasks EXCEPT ![c].pc = "added"], c)
               ELSE /\ tasks' = [tasks EXCEPT ![c] =
                          Done(f, IF f.op = "delete" /\ f.phase = 2 THEN "WorksheetNotFound"
                                  ELSE "ValueError", <<>>)]
                    /\ store' = store
          ELSE IF f.op = "delete" /\ f.phase = 2
               THEN /\ store' = [store EXCEPT ![AsyncKey] =
                          [exists |-> TRUE, rows |-> Trim(DeleteRows(t.rows, f.item["id"].n + 1, 1))]]
                    /\ tasks' = Mark([tasks EXCEPT ![c].pc = "deleted"], c)
               ELSE IF f.op = "delete_all"
               THEN /\ tasks' = [tasks EXCEPT ![c].pc = "rows", ![c].rows = GetAllValues(t)]
                    /\ store' = store
               ELSE IF cache[AsyncSheet].set
               THEN AfterHeaders(c, f, cache[AsyncSheet].headers)
               ELSE /\ tasks' = [tasks EXCEPT ![c].pc = "hdr",
                                   ![c].headers = IF t.rows = <<>> THEN <<>>
                                                  ELSE TextRow(Head(t.rows))]
                    /\ store' = store
       /\ UNCHANGED <<record_type, adapter, cache, prev, last, cleared, client>>

\* add_worksheet has returned: ws.append_row(headers) is awaited.
Added(c) ==
    /\ tasks[c].pc = "added"
    /\ store' = [store EXCEPT ![AsyncKey] =
                    [exists |-> TRUE, rows |-> store[AsyncKey].rows \o <<MappedKeys>>]]
    /\ tasks' = Mark([tasks EXCEPT ![c].pc = "hdr_appended"], c)
    /\ UNCHANGED <<record_type, adapter, cache, prev, last, cleared, client>>

\* append_row has returned: the headers are cached and the rows are appended.
HeaderAppended(c) ==
    /\ tasks[c].pc = "hdr_appended"
    /\ cache' = [cache EXCEPT ![AsyncSheet] = Entry(MappedKeys)]
    /\ AfterHeaders(c, tasks[c], MappedKeys)
    /\ UNCHANGED <<record_type, adapter, prev, last, cleared, client>>

\* row_values(1) has returned: the headers are cached.
GotHeaders(c) ==
    /\ tasks[c].pc = "hdr"
    /\ cache' = [cache EXCEPT ![AsyncSheet] = Entry(tasks[c].headers)]
    /\ AfterHeaders(c, tasks[c], tasks[c].headers)
    /\ UNCHANGED <<record_type, adapter, prev, last, cleared, client>>

\* get_all_values has returned.  delete_all clears the rows it saw; get_all
\* builds the records; get_one, update and delete look for the first match,
\* and update and delete go on to their write.
GotRows(c) ==
    LET f == tasks[c]
        data == ZipScan(f.headers, IF f.rows = <<>> THEN <<>> ELSE Tail(f.rows),
                        IF f.op = "get_all" THEN f.filters ELSE <<>>)
        i == FirstMatch(data, f.filters)
    IN /\ f.pc = "rows"
       /\ IF f.op = "delete_all"
          THEN IF Len(f.rows) <= 1
               THEN /\ tasks' = [tasks EXCEPT ![c] = Done(f, "ok", <<>>)]
                    /\ UNCHANGED <<store, cache, client>>
               ELSE /\ store' = [store EXCEPT ![AsyncKey] =
                          [exists |-> TRUE, rows |-> BatchClear(store[AsyncKey].rows, Len(f.rows))]]
                    /\ tasks' = Mark([tasks EXCEPT ![c].pc = "cleared"], c)
                    /\ UNCHANGED <<cache, client>>
          ELSE IF generate_field_map_raises
          THEN /\ tasks' = [tasks EXCEPT ![c] = Done(f, "TypeError", <<>>)]
               /\ UNCHANGED <<store, cache, client>>
          ELSE IF f.op = "get_all"
          THEN /\ tasks' = [tasks EXCEPT ![c] = Done(f, "ok", data)]
               /\ UNCHANGED <<store, cache, client>>
          ELSE IF i = 0
          THEN /\ tasks' = [tasks EXCEPT ![c] = Done(f, "NotFoundError", <<>>)]
               /\ UNCHANGED <<store, cache, client>>
          ELSE IF f.op = "get_one"
          THEN /\ tasks' = [tasks EXCEPT ![c] = Done(f, "ok", <<data[i]>>)]
               /\ UNCHANGED <<store, cache, client>>
          ELSE IF f.op = "update"
          THEN EnterClient(c, [f EXCEPT !.phase = 2, !.idx = i - 1,
                                        !.item = Setattrs(data[i], f.data)])
          ELSE EnterClient(c, [f EXCEPT !.phase = 2, !.item = data[i]])
       /\ UNCHANGED <<record_type, adapter, prev, last, cleared>>

\* The last network call of the call has returned: the call returns.
Finished(c) ==
    LET f == tasks[c]
    IN /\ f.pc \in {"appended", "written", "deleted", "cleared"}
       /\ tasks' = [tasks EXCEPT ![c] =
             Done(f, "ok", IF f.op \in {"update", "delete"} THEN <<f.item>> ELSE <<>>)]
       /\ UNCHANGED <<record_type, adapter, store, cache, prev, last, cleared, client>>

\* The caller takes the outcome.
Collect(c) ==
    /\ tasks[c].pc = "done"
    /\ tasks' = [tasks EXCEPT ![c] = [IdleFrame EXCEPT !.calls = tasks[c].calls,
                                                       !.wrote_last = tasks[c].wrote_last]]
    /\ UNCHANGED <<record_type, adapter, store, cache, prev, last, cleared, client>>

\* The sheet at process start: absent, or left by earlier processes.
AsyncTables ==
    {NoTable, HeaderOnly,
     [exists |-> TRUE, rows |-> <<MappedKeys, <<IntV(0), StrV("a")>>>>],
     [exists |-> TRUE, rows |-> <<MappedKeys, <<IntV(0), StrV("a")>>, <<IntV(1), StrV("b")>>>>]}

InitAsync ==
    /\ record_type = "User"
    /\ adapter = "gsheet_async"
    /\ store \in [{AsyncKey} -> AsyncTables]
    /\ cache = [k \in {AsyncSheet} |-> NoEntry]
    /\ prev = store
    /\ last = NoCall
    /\ cleared = FALSE
    /\ tasks = NoTasks
    /\ client = NoClient

NextAsync ==
    \E c \in Callers :
        \/ \E models \in SharedBatches : Start_insert_many(c, models)
        \/ \E model \in SharedModels : Start_insert(c, model)
        \/ \E filters \in SharedFilters : Start_get_all(c, filters)
        \/ \E filters \in SharedFilters : Start_get_one(c, filters)
        \/ \E filters \in SharedFilters, update_data \in AsyncUpdates :
              Start_update(c, filters, update_data)
        \/ \E filters \in SharedFilters : Start_delete(c, filters)
        \/ Start_delete_all(c)
        \/ Authorized(c)
        \/ Opened(c)
        \/ GotWorksheet(c)
        \/ Added(c)
        \/ HeaderAppended(c)
        \/ GotHeaders(c)
        \/ GotRows(c)
        \/ Finished(c)
        \/ Collect(c)

SpecAsync == InitAsync /\ [][NextAsync]_vars

(***************************************************************************)
(* What the properties speak of: the table the last call worked on, before  *)
(* and after it, and what a get_all without filters returns for a table.    *)
(***************************************************************************)
Before == prev[StoreKey(adapter, last.file, last.sheet)]
After == store[StoreKey(adapter, last.file, last.sheet)]

Reload(t) ==
    Do_get_all(adapter, t, cache[CacheKey(adapter, last.file, last.sheet)], <<>>).items

\* Every filter field of the item equals the expected value.
AllEqual(item, filters) == \A k \in DOMAIN filters : item[k] = filters[k]

Hits(items, filters) == {i \in 1..Len(items) : AllEqual(items[i], filters)}
FirstHit(items, filters) ==
    CHOOSE i \in Hits(items, filters) : \A j \in Hits(items, filters) : i <= j

RemoveAt(seq, i) == [j \in 1..(Len(seq) - 1) |-> IF j < i THEN seq[j] ELSE seq[j + 1]]

Succeeded(op) == last.op = op /\ last.kind = "ok"

\* C1: after insert_many of a non-empty sequence of records, get_all without
\* filters returns the records stored before followed by the inserted records,
\* in the order given, each field equal to the inserted value.
C1_InsertManyThenGetAll ==
    Succeeded("insert_many") => Reload(After) = Reload(Before) \o last.models

C1_Witness ==
    /\ Succeeded("insert_many")
    /\ Len(last.models) = 2
    /\ last.models[1] # last.models[2]
    /\ Len(Reload(Before)) = 1
    /\ Len(Reload(After)) = 3

\* The call looked for a row: get_one, update or delete.
Lookup == last.op \in {"get_one", "update", "delete"}

\* No row of the table as it was before the call matches the filters.
NoRowMatches == Hits(Reload(Before), last.filters) = {}

\* C2 as stated: in every adapter and storage state (table absent, header
\* only, with rows), get_one, update and delete whose filters match no row
\* fail with NotFoundError and with no other error.
C2_NoMatchRaisesNotFound ==
    (Lookup /\ NoRowMatches) => last.kind = "NotFoundError"

\* C2 amended: they fail with NotFoundError whenever the table exists, and in
\* CsvDB also when the file is absent; in ExcelDB and GoogleSheetDB an absent
\* sheet makes them fail with ValueError.
C2_NoMatchRaisesNotFoundIfTableExists ==
    (Lookup /\ NoRowMatches) =>
        /\ (adapter = "csv" \/ Before.exists) => last.kind = "NotFoundError"
        /\ (adapter # "csv" /\ ~Before.exists) => last.kind = "ValueError"

C2_Witness ==
    /\ adapter = "excel"
    /\ last.op = "delete"
    /\ DOMAIN last.filters = FieldSet
    /\ Len(Reload(Before)) = 2
    /\ NoRowMatches
    /\ last.kind = "NotFoundError"

\* C3: after a successful delete the record is gone from get_all, the table
\* has exactly one data row less, and the remaining rows keep their order, also
\* when several rows match and when the record's id is not its row position.
C3_DeleteRemovesExactlyTheRecord ==
    Succeeded("delete") =>
        /\ Hits(Reload(Before), last.filters) # {}
        /\ Reload(After) = RemoveAt(Reload(Before), FirstHit(Reload(Before), last.filters))
        /\ DataRows(After) = DataRows(Before) - 1

\* C4: when the filters match one or more rows, get_one returns, update
\* changes and returns, and delete removes and returns the first matching row
\* in scan order; later matching rows are untouched and are not what is returned.
C4_FirstMatchWins ==
    (Lookup /\ last.kind = "ok") =>
        LET b == Reload(Before)
            a == Reload(After)
            i == FirstHit(b, last.filters)
            Hit(item) == AllEqual(item, last.filters)
            laterB == SubSeq(b, i + 1, Len(b))
            laterA == SubSeq(a, Len(a) - Len(laterB) + 1, Len(a))
        IN /\ Hits(b, last.filters) # {}
           /\ last.op = "get_one" => last.items = <<b[i]>>
           /\ last.op = "update" => last.items = <<Setattrs(b[i], last.data)>>
           /\ last.op = "delete" => last.items = <<b[i]>>
           /\ Len(a) >= Len(laterB)
           /\ SelectSeq(laterA, Hit) = SelectSeq(laterB, Hit)

\* C5: after a successful update, get_all shows the targeted record with
\* exactly the fields of update_data changed to the given values, and every
\* other record as it was and where it was.
C5_UpdateChangesOnlyTheTarget ==
    Succeeded("update") =>
        LET b == Reload(Before)
            i == FirstHit(b, last.filters)
        IN /\ Hits(b, last.filters) # {}
           /\ Reload(After) =
                 [b EXCEPT ![i] = [f \in FieldSet |->
                                     IF f \in DOMAIN last.data THEN last.data[f] ELSE b[i][f]]]

\* The header row of a table: its first physical row.
HeaderRow(t) == IF t.exists /\ t.rows # <<>> THEN <<Head(t.rows)>> ELSE <<>>

\* C6: after delete_all, get_all returns the empty sequence and the header row
\* is the one before the call; an insert after it appends under that header
\* row and writes no header row.
C6_DeleteAllKeepsHeader ==
    /\ Succeeded("delete_all") =>
          /\ Reload(After) = <<>>
          /\ DataRows(After) = 0
          /\ HeaderRow(After) = HeaderRow(Before)
    /\ (last.op \in {"insert", "insert_many"} /\ last.after_clear /\ Before.exists) =>
          /\ last.kind = "ok"
          /\ HeaderRow(After) = HeaderRow(Before)
          /\ Len(After.rows) = 1 + Len(last.models)
          /\ \A j \in 1..Len(last.models) :
                TextRow(After.rows[j + 1]) =
                    TextRow(<<last.models[j]["id"], last.models[j]["name"]>>)
          /\ Reload(After) = last.models

C6_Witness ==
    /\ last.op = "insert_many"
    /\ last.after_clear
    /\ Before.exists
    /\ Len(last.models) = 2
    /\ Len(After.rows) = 3

\* C7 as stated: get_all for a record type whose table does not exist
\* returns an empty sequence and does not raise, in every adapter.
C7_GetAllOfAbsentTableIsEmpty ==
    (last.op = "get_all" /\ ~Before.exists) => (last.kind = "ok" /\ last.items = <<>>)

\* C7 amended: it returns an empty sequence without raising in CsvDB; in
\* ExcelDB and GoogleSheetDB it raises ValueError; in both cases no table is
\* created.
C7_GetAllOfAbsentTablePerAdapter ==
    (last.op = "get_all" /\ ~Before.exists) =>
        /\ adapter = "csv" => (last.kind = "ok" /\ last.items = <<>>)
        /\ adapter # "csv" => last.kind = "ValueError"
        /\ ~After.exists

C7_Witness ==
    /\ last.op = "get_all"
    /\ ~Before.exists
    /\ adapter = "csv"
    /\ last.kind = "ok"
    /\ DOMAIN last.filters # {}

\* C8: get_all with filters returns exactly the rows that parse and whose
\* every filter field equals the expected value, in stored order; without
\* filters it returns every row that parses.
C8_GetAllIsTheMatchingSubsequence ==
    Succeeded("get_all") =>
        LET b == Reload(Before)
            keep == Hits(b, last.filters)
            nth(j) == CHOOSE i \in keep : Cardinality({m \in keep : m <= i}) = j
        IN /\ Len(last.items) = Cardinality(keep)
           /\ \A j \in 1..Cardinality(keep) : last.items[j] = b[nth(j)]
           /\ DOMAIN last.filters = {} => last.items = b

C8_Witness ==
    /\ Succeeded("get_all")
    /\ DOMAIN last.filters = FieldSet
    /\ Len(Reload(Before)) = 3
    /\ Len(last.items) = 2
    /\ ~AllEqual(Reload(Before)[2], last.filters)

\* C9: insert_many on a table without header row creates the header row from
\* the first record's mapped field names in declared order, before any data
\* row, so that in every reachable state the first physical row of a table
\* that is not empty is its header row.
C9_FirstRowIsTheHeaderRow ==
    /\ (last.op = "insert_many" /\ HeaderRow(Before) = <<>>) =>
          HeaderRow(After) = <<MappedKeys>>
    /\ \A k \in DOMAIN store :
          (store[k].exists /\ store[k].rows # <<>>) => TextRow(Head(store[k].rows)) = MappedKeys

\* C10: once the header row of a table is set, no call (insert, insert_many,
\* get_all, get_one, update, delete, delete_all) changes, reorders, extends or
\* removes it.
C10_HeaderRowNeverChanges ==
    (last.op # "none" /\ HeaderRow(Before) # <<>>) => HeaderRow(After) = HeaderRow(Before)

\* What an adapter stores for a value: CsvDB its text, the others the value.
Stored(v) == IF adapter = "csv" THEN ToText(v) ELSE v

\* C11: insert_many onto an existing header row appends, for every record, a
\* row with exactly one value per header, in header order: the record's value
\* of the field mapped to that header, the empty string when no field maps to
\* it; fields whose mapped name is not a header are written nowhere, and the
\* call raises nothing.
C11_InsertProjectsOntoHeaderRow ==
    (last.op = "insert_many" /\ HeaderRow(Before) # <<>>) =>
        LET h == Head(Before.rows)
            n == Len(Before.rows)
            FieldOf(x) == {f \in FieldSet : x.k = "str" /\ MapField(f) = x.s}
        IN /\ last.kind = "ok"
           /\ Len(After.rows) = n + Len(last.models)
           /\ SubSeq(After.rows, 1, n) = Before.rows
           /\ \A j \in 1..Len(last.models) :
                 /\ Len(After.rows[n + j]) = Len(h)
                 /\ \A i \in 1..Len(h) :
                       After.rows[n + j][i] =
                           IF FieldOf(h[i]) = {} THEN StrV("")
                           ELSE Stored(last.models[j][CHOOSE f \in FieldOf(h[i]) : TRUE])

\* The data rows get_all reads from a table, and the outcome of constructing
\* a record from the i-th of them under the headers the adapter uses.
RowsRead(t) ==
    IF t.rows = <<>> THEN <<>>
    ELSE IF adapter = "gsheet" THEN Tail(GetAllValues(t)) ELSE Tail(t.rows)

Parsed(t, i) ==
    IF adapter = "csv" THEN Construct(DictReaderDict(Head(t.rows), RowsRead(t)[i]))
    ELSE Construct(ZipDict(cache[CacheKey(adapter, last.file, last.sheet)].headers,
                           RowsRead(t)[i]))

\* C12: get_all on a table that exists never raises because of a stored row
\* whose record construction fails; it returns exactly the rows that construct
\* (and match the filters), in stored order, wherever the failing rows sit.
C12_GetAllSkipsRowsThatFail ==
    (last.op = "get_all" /\ Before.exists) =>
        LET keep == {i \in 1..Len(RowsRead(Before)) :
                        Parsed(Before, i).ok /\ AllEqual(Parsed(Before, i).item, last.filters)}
            nth(j) == CHOOSE i \in keep : Cardinality({m \in keep : m <= i}) = j
        IN /\ last.kind = "ok"
           /\ Len(last.items) = Cardinality(keep)
           /\ \A j \in 1..Cardinality(keep) : last.items[j] = Parsed(Before, nth(j)).item

C12_Witness ==
    /\ Succeeded("get_all")
    /\ DOMAIN last.filters = {}
    /\ Len(RowsRead(Before)) = 3
    /\ Parsed(Before, 1).ok
    /\ ~Parsed(Before, 2).ok
    /\ Parsed(Before, 3).ok
    /\ Len(last.items) = 2

\* The row of the sheet that caller c's update wrote.
WrittenRow(c) == store[AsyncKey].rows[tasks[c].idx + 2]

UpdateDone(c) == tasks[c].op = "update" /\ tasks[c].pc = "done" /\ tasks[c].kind = "ok"

\* Caller d's update_data is in the row caller c's update wrote.
HoldsWriteOf(c, d) ==
    \A j \in 1..Len(tasks[d].headers) :
        UnmapHeader(tasks[d].headers[j].s) \in DOMAIN tasks[d].data =>
            WrittenRow(c)[j] = tasks[d].data[UnmapHeader(tasks[d].headers[j].s)]

\* C13: no mutual exclusion is provided.  An update writes the whole row it
\* computed from its own snapshot: while a caller's update is the latest write
\* to the sheet, the row it wrote is the caller's snapshot record with its
\* update_data applied, whatever other callers wrote to that row after the
\* snapshot was taken; so two interleaved updates can both return and leave a
\* table without one caller's write (the witness).
C13_UpdateWritesItsSnapshotRow ==
    \A c \in Callers :
        (tasks[c].op = "update" /\ tasks[c].pc \in {"written", "done"}
            /\ tasks[c].kind \in {"none", "ok"} /\ tasks[c].wrote_last) =>
            LET data == ZipScan(tasks[c].headers, Tail(tasks[c].rows), <<>>)
            IN /\ tasks[c].idx + 1 <= Len(data)
               /\ tasks[c].idx + 2 <= Len(store[AsyncKey].rows)
               /\ WrittenRow(c) =
                     ProjectItem(Setattrs(data[tasks[c].idx + 1], tasks[c].data),
                                 tasks[c].headers)

\* Both updates returned successfully on the same row, caller 2 wrote last,
\* and caller 1's write is not in the table.
C13_Witness ==
    /\ UpdateDone(1)
    /\ UpdateDone(2)
    /\ tasks[1].idx = tasks[2].idx
    /\ tasks[2].wrote_last
    /\ DOMAIN tasks[1].data # DOMAIN tasks[2].data
    /\ HoldsWriteOf(2, 2)
    /\ ~HoldsWriteOf(2, 1)

\* C14: for one adapter instance authorize() is called at most once over any
\* sequence of calls, also when calls of the asynchronous adapter overlap at
\* their suspension points, and it is not called before the first call that
\* needs the client.
C14_AuthorizeAtMostOnce ==
    /\ client.auths <= 1
    /\ (\A c \in Callers : tasks[c].calls = 0) => client.auths = 0

\* What get_all without filters returns for the record type with sheet name
\* sh on the instance bound to file, the medium being s.
ItemsOf(s, file, sh) ==
    Do_get_all(adapter, s[StoreKey(adapter, file, sh)],
               cache[CacheKey(adapter, file, sh)], <<>>).items

\* C15: through one adapter instance, insert, insert_many, update, delete and
\* delete_all for the record type with sheet name A change neither the header
\* row nor the data rows of the table of a record type with another sheet
\* name B, and get_all for B returns no row that was inserted as a record of A.
C15_OtherTablesUntouched ==
    last.op \in {"insert", "insert_many", "update", "delete", "delete_all"} =>
        \A sh \in Sheets2 \ {last.sheet} :
            IsTarget(last.file, sh) =>
                /\ store[StoreKey(adapter, last.file, sh)] = prev[StoreKey(adapter, last.file, sh)]
                /\ ItemsOf(store, last.file, sh) = ItemsOf(prev, last.file, sh)

\* Header resolution on every table the process can reach: with an entry in
\* the cache the entry is returned and the cache is left as it is; without
\* one the first row of a table that exists is returned and stored.
HeaderResolution ==
    \A file \in Files2, sh \in Sheets2 :
        IsTarget(file, sh) =>
            LET t == store[StoreKey(adapter, file, sh)]
                c == cache[CacheKey(adapter, file, sh)]
                g == Do_get_headers(adapter, t, c)
            IN /\ c.set => (g.headers = c.headers /\ g.c = c)
               /\ (~c.set /\ t.exists /\ t.rows # <<>>) =>
                     (TextRow(g.headers) = TextRow(Head(t.rows)) /\ g.c = Entry(g.headers))

\* C16: header resolution returns the cached headers whenever the cache holds
\* an entry for the table's key and otherwise reads the first row and stores
\* it; once a key has an entry, no call removes the entry or replaces it with
\* a different header sequence.
C16_CacheEntryNeverReplaced ==
    [][/\ HeaderResolution
       /\ \A k \in DOMAIN cache : cache[k].set => cache'[k] = cache[k]]_vars

\* C17: a record type that declares no field map behaves as the identity
\* mapping in both directions: insert_many writes header names equal to the
\* field names, and get_all, get_one, update and delete on that type succeed
\* (or find no record) and read each column into the field of its name.
C17_EmptyFieldMapIsIdentity ==
    record_type = "Plain" =>
        /\ (last.op \in {"insert", "insert_many"} /\ ~Before.exists) =>
              (last.kind = "ok" /\ HeaderRow(After) = <<[i \in 1..Len(Fields) |-> StrV(Fields[i])]>>)
        /\ (last.op \in {"get_all", "get_one", "update", "delete"} /\ Before.exists) =>
              last.kind \in {"ok", "NotFoundError"}
        /\ (last.op = "get_all" /\ Before.exists /\ DOMAIN last.filters = {}) =>
              /\ Len(last.items) = DataRows(Before)
              /\ \A j \in 1..Len(last.items) : \A i \in 1..Len(Fields) :
                    ToText(last.items[j][Fields[i]]) = ToText(Before.rows[j + 1][i])

\* C18: whenever the header cache holds the entry a call on a table would
\* consult, the entry equals the header row stored in that table, after any
\* sequence of calls through any number of adapter instances of the process,
\* also for two workbooks or spreadsheets that each hold a sheet of the same
\* name with a different header row.
C18_CacheEntryIsTheHeaderRow ==
    \A file \in Files2, sh \in Sheets2 :
        IsTarget(file, sh) =>
            LET t == store[StoreKey(adapter, file, sh)]
                c == cache[CacheKey(adapter, file, sh)]
            IN (c.set /\ t.exists) =>
                  /\ t.rows # <<>>
                  /\ TextRow(c.headers) = TextRow(Head(t.rows))

\* The data rows of the table before the call that construct a record matching
\* the filters, and the physical row (the header row is row 1) of the first.
MatchingRows ==
    {i \in 1..Len(RowsRead(Before)) :
        Parsed(Before, i).ok /\ AllEqual(Parsed(Before, i).item, last.filters)}

FirstMatchingRow == 1 + CHOOSE i \in MatchingRows : \A j \in MatchingRows : i <= j

\* C19: a successful update or delete changes no physical row of the table
\* other than that of the first matching record: update leaves every other
\* row, the header row included, as it was and keeps the number of rows, and
\* delete removes that row alone; this also holds when the table holds rows
\* that fail record construction.
C19_OnlyTheFirstMatchingRowChanges ==
    (Succeeded("update") \/ Succeeded("delete")) =>
        /\ MatchingRows # {}
        /\ last.op = "update" =>
              /\ Len(After.rows) = Len(Before.rows)
              /\ \A q \in 1..Len(Before.rows) :
                    q # FirstMatchingRow => After.rows[q] = Before.rows[q]
        /\ last.op = "delete" =>
              After.rows = RemoveAt(Before.rows, FirstMatchingRow)

\* C20: when get_one, update or delete fails with NotFoundError, the stored
\* header row and the stored data rows of the table are identical to what
\* they were before the call (and no other table has changed).
C20_NotFoundLeavesTableUnchanged ==
    (Lookup /\ last.kind = "NotFoundError") =>
        /\ After = Before
        /\ store = prev

C20_Witness ==
    /\ last.op \in {"update", "delete"}
    /\ last.kind = "NotFoundError"
    /\ last.filters # <<>>
    /\ DataRows(Before) >= 2
    /\ \E i \in 1..Len(RowsRead(Before)) : ~Parsed(Before, i).ok
    /\ After = Before

====
